---- MODULE Spec2Model ----
(***************************************************************************)
(* Promise.scheduleAndRun: a bounded-concurrency task scheduler.           *)
(*                                                                         *)
(* Two polyfills are modelled from their source:                           *)
(*   - src/polyfill.js      : the array-queue polyfill (schedule returns a *)
(*     boolean), specification SpecSimple, definitions A_...;              *)
(*   - src/unnamed/part_001 : the circular-buffer polyfill (schedule       *)
(*     returns a promise), specification SpecOpt, definitions B_....       *)
(*                                                                         *)
(* Units: unit 0 is the initializer, units 1..MaxTasks are the tasks, in   *)
(* the order in which schedule is called with them.  A unit's promise      *)
(* settling and the reaction registered on it (handleResolution or         *)
(* handleRejection, which end in settleTask) are one step: nothing of the  *)
(* scheduler's state is read between the two.                              *)
(***************************************************************************)
EXTENDS Integers, Sequences, FiniteSets, TLC

\* Bounds of the model.
MaxTasks == 4
MaxBufTasks == 6
MaxConcurrency == 3
MaxNumerator == 4
MaxDenominator == 2
MaxBothTasks == 6

VARIABLES
    opts,        \* the options object (constant during a run)
    active,      \* var active
    errors,      \* var errors
    queue,       \* var queue
    queueHead,   \* var queueHead (circular-buffer polyfill only)
    queueTail,   \* var queueTail (circular-buffer polyfill only)
    initResult,  \* var initResult
    completion,  \* the promise returned by scheduleAndRun
    status,      \* per unit: where it is in its life
    jobs,        \* the tasks whose start job is queued, oldest first
    outcome,     \* per unit: how its promise settled
    handle,      \* per task: the promise schedule created for it (buffer polyfill)
    started,     \* the tasks whose body was invoked, in invocation order
    nextTask,    \* the task the next accepted schedule call submits
    lastCall,    \* what the latest schedule call did
    hookLog,     \* the hook invocations, in order
    settled,     \* the units whose promise settled, in settlement order
    phantom,     \* a reaction pending on a promise that is no unit's (buffer polyfill)
    ref          \* the instance of the README's reference polyfill run beside it

\* The variables of the instance of a polyfill file.
implVars == <<opts, active, errors, queue, queueHead, queueTail, initResult,
              completion, status, jobs, outcome, handle, started, nextTask,
              lastCall, hookLog, settled, phantom>>

vars == <<implVars, ref>>

\* The units and the tasks of a run: the domains of status and of handle.
Units == DOMAIN status
Tasks == DOMAIN handle

----------------------------------------------------------------------------
\* Values.

Val(u) == [k |-> "val", of |-> u]
Err(u) == [k |-> "err", of |-> u]
HookErr(u) == [k |-> "hookerr", of |-> u]
SubstErr(u) == [k |-> "substitute", of |-> u]
JsTypeError == [k |-> "TypeError", of |-> 0 - 1]
Undefined == [k |-> "undefined", of |-> 0 - 1]

Pending == [state |-> "pending", value |-> Undefined, errors |-> <<>>]

\* opts.maxConcurrency after Math.floor, or 1e999 when it is not given.
Unbounded == [unbounded |-> TRUE, n |-> 0]
Bounded(n) == [unbounded |-> FALSE, n |-> n]

OptsAbsent ==
    [present |-> FALSE, maxConcurrency |-> Unbounded,
     onResolved |-> "none", onRejected |-> "none"]

OptsGiven ==
    [present : {TRUE},
     maxConcurrency : {Unbounded} \cup {Bounded(n) : n \in 1..MaxConcurrency},
     onResolved : {"none", "return", "raise"},
     onRejected : {"none", "swallow", "substitute"}]

\* current < maxConcurrency
LessThanMax(current) ==
    opts.maxConcurrency.unbounded \/ current < opts.maxConcurrency.n

\* A task's handle: not created, pending, resolved with the promise of unit
\* "of" (whose outcome it takes), resolved with undefined, or rejected.
NoHandle == [st |-> "none", of |-> 0 - 1]

NoCall == [task |-> 0, result |-> "none"]

\* The README's reference polyfill when its scheduleAndRun returns: the
\* Promise executor has set up errors, active and queue and has invoked the
\* initializer.  jobs counts the Promise.resolve().then(settleTask) jobs
\* that have not run yet.
R_Init(maxTasks) ==
    [active |-> 1,
     queue |-> <<>>,
     errors |-> <<>>,
     initalizerResult |-> Undefined,
     completion |-> Pending,
     status |-> [u \in 0..maxTasks |-> IF u = 0 THEN "running" ELSE "idle"],
     outcome |-> [u \in 0..maxTasks |-> "none"],
     handle |-> [t \in 1..maxTasks |-> NoHandle],
     started |-> <<>>,
     jobs |-> 0,
     lastCall |-> NoCall,
     hookLog |-> <<>>]

\* The state scheduleAndRun leaves when it returns its promise: the
\* initializer has been invoked and is running.  The variables that
\* settleTask sets to 0 on finalizing (errors, queue, initResult) are
\* modelled by their empty values: nothing reads them afterwards.
InitCommon(maxTasks) ==
    /\ opts \in {OptsAbsent} \cup OptsGiven
    /\ active = 1
    /\ errors = <<>>
    /\ queueHead = 0
    /\ queueTail = 0
    /\ initResult = Undefined
    /\ completion = Pending
    /\ status = [u \in 0..maxTasks |-> IF u = 0 THEN "running" ELSE "idle"]
    /\ jobs = <<>>
    /\ outcome = [u \in 0..maxTasks |-> "none"]
    /\ handle = [t \in 1..maxTasks |-> NoHandle]
    /\ started = <<>>
    /\ nextTask = 1
    /\ lastCall = NoCall
    /\ hookLog = <<>>
    /\ settled = <<>>
    /\ phantom = "none"
    /\ ref = R_Init(maxTasks)

----------------------------------------------------------------------------
\* src/polyfill.js: the array-queue polyfill.

A_Init ==
    /\ InitCommon(MaxTasks)
    /\ queue = <<>>

\* handleResolution's try block: the errors after the onResolved hook ran.
A_resolutionErrors(u) ==
    IF opts.present /\ opts.onResolved = "raise"
    THEN Append(errors, HookErr(u))
    ELSE errors

\* handleResolution's call(handler, opts, value).
A_resolutionLog(u) ==
    IF opts.present /\ opts.onResolved # "none"
    THEN Append(hookLog, [hook |-> "onResolved", arg |-> Val(u)])
    ELSE hookLog

\* handleRejection's rejectionHandled block: with opts given, a missing
\* handler is called (call(null, ...) raises a TypeError, which replaces
\* value) and a supplied handler is skipped; then push(errors, value).
A_rejectionErrors(value) ==
    IF opts.present
    THEN IF opts.onRejected = "none"
         THEN Append(errors, JsTypeError)
         ELSE Append(errors, value)
    ELSE Append(errors, value)

\* A slip in the finalize test: finalizing one unit early.
A_isLast_early(n) == n <= 1

\* settleTask's test --active === 0, on the decremented value.
A_isLast(n) == n = 0

\* settleTask's finalize branch.
A_finalize(errs, res) ==
    IF Len(errs) # 0
    THEN [state |-> "rejected", value |-> Undefined, errors |-> errs]
    ELSE [state |-> "resolved", value |-> res, errors |-> <<>>]

\* A slip in scheduleTask: task() invoked at once instead of in a job.
A_scheduleTask_sync(st, task) ==
    /\ status' = [st EXCEPT ![task] = "running"]
    /\ jobs' = jobs
    /\ started' = Append(started, task)

\* scheduleTask(task), called with the status st: the job that will invoke
\* task() is queued; task() is not invoked here.
A_scheduleTask(st, task) ==
    /\ status' = [st EXCEPT ![task] = "deferred"]
    /\ jobs' = Append(jobs, task)
    /\ started' = started

\* settleTask, run with the status st, the errors errs and the initResult
\* res that the reaction calling it has produced.
A_settleTask(st, errs, res) ==
    IF ~opts.maxConcurrency.unbounded /\ queue # <<>>
    THEN /\ queue' = Tail(queue)
         /\ A_scheduleTask(st, Head(queue))
         /\ errors' = errs
         /\ initResult' = res
         /\ UNCHANGED <<active, completion>>
    ELSE /\ active' = active - 1
         /\ status' = st
         /\ jobs' = jobs
         /\ started' = started
         /\ IF A_isLast(active - 1)
            THEN /\ completion' = A_finalize(errs, res)
                 /\ errors' = <<>>
                 /\ queue' = <<>>
                 /\ initResult' = Undefined
            ELSE /\ errors' = errs
                 /\ initResult' = res
                 /\ UNCHANGED <<queue, completion>>

\* A slip in the admission test: <= for <.
A_admits_inclusive(current) ==
    opts.maxConcurrency.unbounded \/ current <= opts.maxConcurrency.n

\* schedule's admission test.
A_admits(current) == LessThanMax(current)

\* A slip in the lock test: the test left out.
A_locked_never(current) == FALSE

\* schedule's lock test.
A_locked(current) == current = 0

\* The closure passed to initialize, called with a function.
A_schedule ==
    /\ nextTask \in Tasks
    /\ LET task == nextTask
           current == active
       IN IF A_locked(current)
          THEN /\ lastCall' = [task |-> task, result |-> "false"]
               /\ UNCHANGED <<active, status, jobs, started, queue, nextTask>>
          ELSE IF A_admits(current)
          THEN /\ active' = current + 1
               /\ A_scheduleTask(status, task)
               /\ lastCall' = [task |-> task, result |-> "true"]
               /\ nextTask' = nextTask + 1
               /\ UNCHANGED queue
          ELSE /\ queue' = Append(queue, task)
               /\ status' = [status EXCEPT ![task] = "queued"]
               /\ lastCall' = [task |-> task, result |-> "false"]
               /\ nextTask' = nextTask + 1
               /\ UNCHANGED <<active, jobs, started>>
    /\ UNCHANGED <<opts, errors, queueHead, queueTail, initResult, completion,
                   outcome, handle, hookLog, settled, phantom>>

\* The oldest job scheduleTask scheduled runs: task() is invoked.
A_startTask ==
    /\ jobs # <<>>
    /\ jobs' = Tail(jobs)
    /\ status' = [status EXCEPT ![Head(jobs)] = "running"]
    /\ started' = Append(started, Head(jobs))
    /\ UNCHANGED <<opts, active, errors, queue, queueHead, queueTail,
                   initResult, completion, outcome, handle, nextTask,
                   lastCall, hookLog, settled, phantom>>

\* Unit u fulfils: handleResolution(value), for the initializer after
\* initResult = value.
A_handleResolution(u) ==
    /\ status[u] = "running"
    /\ settled' = Append(settled, u)
    /\ outcome' = [outcome EXCEPT ![u] = "ok"]
    /\ hookLog' = A_resolutionLog(u)
    /\ A_settleTask([status EXCEPT ![u] = "settled"],
                    A_resolutionErrors(u),
                    IF u = 0 THEN Val(0) ELSE initResult)
    /\ UNCHANGED <<opts, queueHead, queueTail, handle, nextTask,
                   lastCall, phantom>>

\* Unit u rejects: handleRejection(value).
A_handleRejection(u) ==
    /\ status[u] = "running"
    /\ settled' = Append(settled, u)
    /\ outcome' = [outcome EXCEPT ![u] = "fail"]
    /\ A_settleTask([status EXCEPT ![u] = "settled"],
                    A_rejectionErrors(Err(u)),
                    initResult)
    /\ UNCHANGED <<opts, queueHead, queueTail, handle, nextTask,
                   lastCall, hookLog, phantom>>

A_Next ==
    \/ A_schedule
    \/ A_startTask
    \/ \E u \in Units : A_handleResolution(u)
    \/ \E u \in Units : A_handleRejection(u)

SpecSimple == A_Init /\ [][A_Next /\ UNCHANGED ref]_vars

----------------------------------------------------------------------------
\* src/unnamed/part_001: the circular-buffer polyfill.
\*
\* queue is the safeArray: its length and its slots that hold something
\* else than undefined.  A slot holds a task, or the resolve or the reject
\* function of a task's handle.

Item(kind, t) == [k |-> kind, of |-> t]

\* The & operator (two's complement, on the small numbers of the model).
RECURSIVE BitAnd(_, _)
BitAnd(a, b) ==
    IF a = 0 \/ b = 0 THEN 0
    ELSE IF a = 0 - 1 THEN b
    ELSE IF b = 0 - 1 THEN a
    ELSE (a % 2) * (b % 2) + 2 * BitAnd(a \div 2, b \div 2)

\* queueRef[i]
Get(q, i) == IF i \in DOMAIN q.slots THEN q.slots[i] ELSE Undefined

\* queueRef[i] = v
Set(q, i, v) ==
    [length |-> IF i + 1 > q.length THEN i + 1 ELSE q.length,
     slots |-> [j \in DOMAIN q.slots \cup {i} |->
                  IF j = i THEN v ELSE q.slots[j]]]

\* queueRef.length = n
SetLength(q, n) ==
    [length |-> n,
     slots |-> [j \in {i \in DOMAIN q.slots : i < n} |-> q.slots[j]]]

\* queueRef.fill(void 0, from, to)
Fill(q, from, to) ==
    [length |-> q.length,
     slots |-> [j \in {i \in DOMAIN q.slots : i < from \/ i >= to \/ i >= q.length}
                  |-> q.slots[j]]]

\* queueRef.copyWithin(target, 0, to)
CopyWithin(q, target, to) ==
    LET moved == {i \in 0..(to - 1) : target + i < q.length}
        dest == {target + i : i \in moved}
        kept == (DOMAIN q.slots \ dest)
                    \cup {target + i : i \in moved \cap DOMAIN q.slots}
    IN [length |-> q.length,
        slots |-> [j \in kept |->
                     IF j \in dest THEN q.slots[j - target] ELSE q.slots[j]]]

\* The initial capacity and the doubling of schedule's growth step.
InitialCapacity == 16
grownLength(length) == IF length = 0 THEN InitialCapacity ELSE 2 * length

\* schedule's test for growing the buffer.
B_mustGrow(tail, head, mask) == BitAnd(tail - head, mask) < 3

\* schedule's growth step: the buffer and the tail it leaves.
B_grow(q, head, tail) ==
    LET length == q.length
        longer == Fill(SetLength(q, grownLength(length)), length, grownLength(length))
    IN IF tail < head
       THEN [queue |-> Fill(CopyWithin(longer, length, tail), 0, tail),
             tail |-> tail + length]
       ELSE [queue |-> longer, tail |-> tail]

\* schedule's write of the entry: the mask is the one computed from the
\* length the buffer had when schedule was entered.
B_write(q, tail, mask, t) ==
    Set(Set(Set(q, tail, Item("task", t)),
            BitAnd(tail + 1, mask), Item("resolve", t)),
        BitAnd(tail + 2, mask), Item("reject", t))

B_Init ==
    /\ InitCommon(MaxBufTasks)
    /\ queue = [length |-> 0, slots |-> <<>>]

\* schedule's admission test.
B_admits(current) == LessThanMax(current)

\* The closure passed to initialize, called with a function.  With a free
\* slot it ends in scheduleTask(settleTask): this file defines no
\* scheduleTask, so the call raises a ReferenceError after active and the
\* buffer have been updated.
B_schedule ==
    /\ nextTask \in Tasks
    /\ LET task == nextTask
           current == active
           length == queue.length
           mask == length - 1
           head == queueHead
           grown == IF B_mustGrow(queueTail, head, mask)
                    THEN B_grow(queue, head, queueTail)
                    ELSE [queue |-> queue, tail |-> queueTail]
       IN IF current = 0
          THEN /\ lastCall' = [task |-> task, result |-> "Error: Scheduler locked!"]
               /\ UNCHANGED <<active, status, queue, queueTail, nextTask, handle>>
          ELSE /\ handle' = [handle EXCEPT ![task] = [st |-> "pending", of |-> 0 - 1]]
               /\ queue' = B_write(grown.queue, grown.tail, mask, task)
               /\ queueTail' = BitAnd(grown.tail + 3, mask)
               /\ status' = [status EXCEPT ![task] = "queued"]
               /\ nextTask' = nextTask + 1
               /\ IF B_admits(current)
                  THEN /\ active' = current + 1
                       /\ lastCall' = [task |-> task, result |-> "ReferenceError"]
                  ELSE /\ active' = active
                       /\ lastCall' = [task |-> task, result |-> "promise"]
    /\ UNCHANGED <<opts, errors, queueHead, initResult, completion, outcome,
                   jobs, started, hookLog, settled, phantom>>

\* Calling a handle's resolve or reject function: only the first call on a
\* handle has an effect.
settleHandle(h, t, to) ==
    IF t \in DOMAIN h /\ h[t].st = "pending" THEN [h EXCEPT ![t] = to] ELSE h

\* promiseTry(next): what invoking the slot's value does to the handles.
\* A task returns its own promise; a resolve or reject function, called
\* with no argument, settles its handle with undefined and returns
\* undefined; undefined is not callable.
B_tryHandles(h, next) ==
    CASE next.k = "resolve" -> settleHandle(h, next.of, [st |-> "undefined", of |-> 0 - 1])
      [] next.k = "reject" -> settleHandle(h, next.of, [st |-> "rejected", of |-> 0 - 1])
      [] OTHER -> h

\* resolve(promise): what invoking the second slot's value with the promise
\* of promiseTry(next) does to the handles.
B_resolveHandles(h, resolve, next) ==
    CASE resolve.k = "resolve" ->
            settleHandle(h, resolve.of,
                CASE next.k = "task" -> [st |-> "adopt", of |-> next.of]
                  [] next.k = "undefined" -> [st |-> "rejected", of |-> 0 - 1]
                  [] OTHER -> [st |-> "undefined", of |-> 0 - 1])
      [] resolve.k = "reject" -> settleHandle(h, resolve.of, [st |-> "rejected", of |-> 0 - 1])
      [] OTHER -> h

\* The tasks whose body settleTask's dequeue invokes, in order: next by
\* promiseTry, and the second slot's value when that is a task.
B_invoked(next, resolve) ==
    (IF next.k = "task" THEN <<next.of>> ELSE <<>>)
        \o (IF resolve.k = "task" THEN <<resolve.of>> ELSE <<>>)

\* The status after the dequeue: the reaction of then(promise, ...) is
\* registered ("running") unless resolve(promise) raised before; a task
\* invoked without it runs with no reaction ("detached").
B_dequeueStatus(st, next, resolve) ==
    [u \in DOMAIN st |->
        IF next.k = "task" /\ u = next.of
        THEN IF resolve.k = "undefined" THEN "detached" ELSE "running"
        ELSE IF resolve.k = "task" /\ u = resolve.of THEN "detached"
        ELSE st[u]]

\* The reaction pending on the promise of promiseTry(next) when next is no
\* task: it is already settled.
B_dequeuePhantom(next, resolve) ==
    IF next.k = "task" \/ resolve.k = "undefined" THEN "none"
    ELSE IF next.k = "undefined" THEN "fail" ELSE "ok"

\* settleTask.  In its finalize branch resolveFn and rejectFn are read from
\* settleTask's own resolve and reject (the var declarations of the dequeue
\* branch are hoisted), which are undefined there: the call raises a
\* TypeError and the promise scheduleAndRun returned stays as it is.
B_settleTask(st, errs, res) ==
    IF queueHead # queueTail
    THEN LET mask == queue.length - 1
             next == Get(queue, queueHead)
             resolve == Get(queue, BitAnd(queueHead + 1, mask))
         IN /\ queueHead' = BitAnd(queueHead + 3, mask)
            /\ handle' = B_resolveHandles(B_tryHandles(handle, next), resolve, next)
            /\ started' = started \o B_invoked(next, resolve)
            /\ status' = B_dequeueStatus(st, next, resolve)
            /\ phantom' = B_dequeuePhantom(next, resolve)
            /\ errors' = errs
            /\ initResult' = res
            /\ UNCHANGED <<active, completion, queue, queueTail>>
    ELSE /\ active' = active - 1
         /\ status' = st
         /\ phantom' = "none"
         /\ IF active - 1 = 0
            THEN /\ errors' = <<>>
                 /\ queue' = [length |-> 0, slots |-> <<>>]
                 /\ queueHead' = 0
                 /\ queueTail' = 0
                 /\ initResult' = Undefined
                 /\ UNCHANGED <<completion, handle, started>>
            ELSE /\ errors' = errs
                 /\ initResult' = res
                 /\ UNCHANGED <<completion, queue, queueHead, queueTail,
                                handle, started>>

\* handleResolution's try block: the errors after the onResolved hook ran.
B_resolutionErrors(u) ==
    IF opts.present /\ opts.onResolved = "raise"
    THEN Append(errors, HookErr(u))
    ELSE errors

\* handleResolution's call(handler, opts): the hook gets no argument.
B_resolutionLog ==
    IF opts.present /\ opts.onResolved # "none"
    THEN Append(hookLog, [hook |-> "onResolved", arg |-> Undefined])
    ELSE hookLog

\* handleRejection's rejectionHandled block (as in the array polyfill).
B_rejectionErrors(value) ==
    IF opts.present
    THEN IF opts.onRejected = "none"
         THEN Append(errors, JsTypeError)
         ELSE Append(errors, value)
    ELSE Append(errors, value)

\* Unit u fulfils: handleResolution(), for the initializer after
\* initResult = value.
B_handleResolution(u) ==
    /\ status[u] = "running"
    /\ settled' = Append(settled, u)
    /\ outcome' = [outcome EXCEPT ![u] = "ok"]
    /\ hookLog' = B_resolutionLog
    /\ B_settleTask([status EXCEPT ![u] = "settled"],
                    B_resolutionErrors(u),
                    IF u = 0 THEN Val(0) ELSE initResult)
    /\ UNCHANGED <<opts, jobs, nextTask, lastCall>>

\* Unit u rejects: handleRejection(value).
B_handleRejection(u) ==
    /\ status[u] = "running"
    /\ settled' = Append(settled, u)
    /\ outcome' = [outcome EXCEPT ![u] = "fail"]
    /\ B_settleTask([status EXCEPT ![u] = "settled"],
                    B_rejectionErrors(Err(u)),
                    initResult)
    /\ UNCHANGED <<opts, jobs, nextTask, lastCall, hookLog>>

\* The reaction on a promise that is no unit's runs: handleResolution() for
\* the undefined a resolve or reject function returned, handleRejection for
\* the TypeError of calling undefined.
B_phantomReaction ==
    /\ phantom # "none"
    /\ IF phantom = "ok"
       THEN /\ hookLog' = B_resolutionLog
            /\ B_settleTask(status, B_resolutionErrors(0 - 1), initResult)
       ELSE /\ hookLog' = hookLog
            /\ B_settleTask(status, B_rejectionErrors(JsTypeError), initResult)
    /\ UNCHANGED <<opts, jobs, nextTask, lastCall, outcome, settled>>

\* A task that runs with no reaction registered settles: nothing of the
\* scheduler hears of it.
B_detachedSettles(t) ==
    /\ status[t] = "detached"
    /\ \E o \in {"ok", "fail"} : outcome' = [outcome EXCEPT ![t] = o]
    /\ status' = [status EXCEPT ![t] = "settled"]
    /\ settled' = Append(settled, t)
    /\ UNCHANGED <<opts, active, errors, queue, queueHead, queueTail,
                   initResult, completion, jobs, handle, started, nextTask,
                   lastCall, hookLog, phantom>>

B_Next ==
    \/ B_schedule
    \/ \E u \in Units : B_handleResolution(u)
    \/ \E u \in Units : B_handleRejection(u)
    \/ B_phantomReaction
    \/ \E t \in Tasks : B_detachedSettles(t)

SpecOpt == B_Init /\ [][B_Next /\ UNCHANGED ref]_vars

----------------------------------------------------------------------------
\* src/README.md: the reference polyfill, as the record ref, and the two
\* polyfills run side by side, the circular-buffer polyfill in the
\* variables of implVars: the same options, the same schedule calls and the
\* same outcome of each unit.

\* settleTask.  The task taken from the queue is invoked at once, inside
\* new Promise(resolve => { resolve(task()) }), and its handle is resolved
\* with that promise.
R_settleTask(r) ==
    IF r.queue # <<>>
    THEN LET task == Head(r.queue)
         IN [r EXCEPT !.queue = Tail(r.queue),
                      !.status[task] = "running",
                      !.started = Append(r.started, task),
                      !.handle[task] = [st |-> "adopt", of |-> task]]
    ELSE IF r.active - 1 = 0
    THEN [r EXCEPT !.active = 0,
                   !.completion =
                        IF Len(r.errors) # 0
                        THEN [state |-> "rejected", value |-> Undefined,
                              errors |-> r.errors]
                        ELSE [state |-> "resolved", value |-> r.initalizerResult,
                              errors |-> <<>>],
                   !.errors = <<>>,
                   !.queue = <<>>]
    ELSE [r EXCEPT !.active = r.active - 1]

\* Unit u fulfils: onTaskResolve(), for the initializer after
\* initalizerResult = value.  When the hook raises, the catch block's
\* errors.push(value) reads a value that is declared nowhere: it raises a
\* ReferenceError, which leaves onTaskResolve before settleTask() is
\* reached.
R_onTaskResolve(r, u) ==
    LET r1 == [r EXCEPT !.status[u] = "settled",
                        !.outcome[u] = "ok",
                        !.initalizerResult = IF u = 0 THEN Val(0) ELSE @,
                        !.hookLog =
                            IF opts.present /\ opts.onResolved # "none"
                            THEN Append(@, [hook |-> "onResolved", arg |-> Undefined])
                            ELSE @]
    IN IF opts.present /\ opts.onResolved = "raise" THEN r1
       ELSE R_settleTask(r1)

\* Unit u rejects: onTaskReject(error).  Every path reads the undeclared
\* value (the argument of hook.call(opts, value), inside the try, and
\* errors.push(value), outside it): the ReferenceError of the latter leaves
\* onTaskReject with no hook called, nothing pushed and settleTask() not
\* reached.
R_onTaskReject(r, u) ==
    [r EXCEPT !.status[u] = "settled", !.outcome[u] = "fail"]

\* schedule(task).
R_schedule(r, task) ==
    IF r.active = 0
    THEN [r EXCEPT !.lastCall = [task |-> task, result |-> "Error: Scheduler locked!"]]
    ELSE LET r1 == [r EXCEPT !.queue = Append(@, task),
                             !.status[task] = "queued",
                             !.handle[task] = [st |-> "pending", of |-> 0 - 1],
                             !.lastCall = [task |-> task, result |-> "promise"]]
         IN IF LessThanMax(r.active)
            THEN [r1 EXCEPT !.active = @ + 1, !.jobs = @ + 1]
            ELSE r1

Both_Init ==
    /\ InitCommon(MaxBothTasks)
    /\ queue = [length |-> 0, slots |-> <<>>]

\* The initializer calls schedule with the same function on both.  Calls
\* made when only one of the two is locked are not followed.
Both_schedule ==
    /\ (active = 0) <=> (ref.active = 0)
    /\ B_schedule
    /\ ref' = R_schedule(ref, nextTask)

\* What unit u settling with outcome o does to the buffer polyfill.
B_settles(u, o) ==
    CASE status[u] = "running" /\ o = "ok" -> B_handleResolution(u)
      [] status[u] = "running" /\ o = "fail" -> B_handleRejection(u)
      [] status[u] = "detached" -> B_detachedSettles(u) /\ outcome'[u] = o
      [] OTHER -> UNCHANGED implVars

\* What unit u settling with outcome o does to the reference polyfill.
R_settles(r, u, o) ==
    IF r.status[u] # "running" THEN r
    ELSE IF o = "ok" THEN R_onTaskResolve(r, u)
    ELSE R_onTaskReject(r, u)

\* Unit u, running in at least one of the two, settles: in both when it
\* runs in both, and with one outcome.  It settles in a later turn: the
\* jobs queued until then have run.
Both_settle ==
    \E u \in Units, o \in {"ok", "fail"} :
        /\ ref.jobs = 0
        /\ status[u] \in {"running", "detached"} \/ ref.status[u] = "running"
        /\ outcome[u] \in {"none", o}
        /\ ref.outcome[u] \in {"none", o}
        /\ B_settles(u, o)
        /\ ref' = R_settles(ref, u, o)

\* A job of Promise.resolve().then(settleTask) of the reference polyfill
\* runs.
Both_job ==
    /\ ref.jobs > 0
    /\ ref' = R_settleTask([ref EXCEPT !.jobs = @ - 1])
    /\ UNCHANGED implVars

Both_phantom == B_phantomReaction /\ UNCHANGED ref

Both_Next ==
    \/ Both_schedule
    \/ Both_settle
    \/ Both_job
    \/ Both_phantom

SpecBoth == Both_Init /\ [][Both_Next]_vars

----------------------------------------------------------------------------
\* The call of scheduleAndRun itself, up to the invocation of the
\* initializer: the validation of opts.maxConcurrency (the same statements
\* in src/polyfill.js, src/unnamed/part_001 and the README's polyfill).

\* The numbers opts.maxConcurrency is drawn from: NaN, the infinities and
\* the fractions num/den; "absent" is undefined or null, or opts not given.
Num(num, den) == [kind |-> "num", num |-> num, den |-> den]
NaN == [kind |-> "nan", num |-> 0, den |-> 1]
Infinity == [kind |-> "inf", num |-> 0, den |-> 1]
NegInfinity == [kind |-> "neginf", num |-> 0, den |-> 1]
Absent == [kind |-> "absent", num |-> 0, den |-> 1]

MaxConcurrencyOpts ==
    {NaN, Infinity, NegInfinity, Absent}
        \cup {Num(num, den) : num \in (0 - MaxNumerator)..MaxNumerator,
                              den \in 1..MaxDenominator}

\* Math.floor: the greatest integer not above x; NaN and the infinities are
\* returned as they are.
floor(x) == IF x.kind = "num" THEN Num(x.num \div x.den, 1) ELSE x

\* var maxConcurrency = maxConcurrencyOpt != null
\*     ? floor(maxConcurrencyOpt) : 1e999
maxConcurrencyOf(maxConcurrencyOpt) ==
    IF maxConcurrencyOpt.kind # "absent" THEN floor(maxConcurrencyOpt)
    ELSE Infinity

\* A slip in the validation: >= 0 for >= 1.
AtLeastOne_zero(x) ==
    CASE x.kind = "num" -> x.num >= 0
      [] x.kind = "inf" -> TRUE
      [] OTHER -> FALSE

\* maxConcurrency >= 1: every comparison with NaN is false.
AtLeastOne(x) ==
    CASE x.kind = "num" -> x.num >= x.den
      [] x.kind = "inf" -> TRUE
      [] OTHER -> FALSE

\* The limit the closures work with: maxConcurrency !== 1e999 or not.
limitOf(x) == IF x.kind = "inf" THEN Unbounded ELSE Bounded(x.num)

\* Before the call: nothing of the instance exists and neither the
\* initializer nor a task has been invoked.
StartInit ==
    /\ opts \in {[OptsAbsent EXCEPT !.maxConcurrency = Absent]}
            \cup {[o EXCEPT !.maxConcurrency = m] :
                    o \in OptsGiven, m \in MaxConcurrencyOpts}
    /\ active = 0
    /\ errors = <<>>
    /\ queue = <<>>
    /\ queueHead = 0
    /\ queueTail = 0
    /\ initResult = Undefined
    /\ completion = Pending
    /\ status = [u \in 0..MaxTasks |-> "idle"]
    /\ jobs = <<>>
    /\ outcome = [u \in 0..MaxTasks |-> "none"]
    /\ handle = [t \in 1..MaxTasks |-> NoHandle]
    /\ started = <<>>
    /\ nextTask = 1
    /\ lastCall = NoCall
    /\ hookLog = <<>>
    /\ settled = <<>>
    /\ phantom = "none"
    /\ ref = R_Init(MaxTasks)

\* Promise.scheduleAndRun(initialize, opts) with a function and an object
\* (or no opts): it raises the RangeError, or sets up the instance and
\* invokes the initializer.
scheduleAndRun ==
    /\ status[0] = "idle"
    /\ lastCall = NoCall
    /\ LET maxConcurrency == maxConcurrencyOf(opts.maxConcurrency)
       IN IF ~AtLeastOne(maxConcurrency)
          THEN /\ lastCall' = [task |-> 0, result |-> "RangeError"]
               /\ UNCHANGED <<opts, active, status>>
          ELSE /\ opts' = [opts EXCEPT !.maxConcurrency = limitOf(maxConcurrency)]
               /\ active' = 1
               /\ status' = [status EXCEPT ![0] = "running"]
               /\ UNCHANGED lastCall
    /\ UNCHANGED <<errors, queue, queueHead, queueTail, initResult,
                   completion, jobs, outcome, handle, started, nextTask,
                   hookLog, settled, phantom>>

SpecStart == StartInit /\ [][scheduleAndRun /\ UNCHANGED ref]_vars

----------------------------------------------------------------------------
\* The claims.

\* The units whose body has been invoked and whose promise has not settled.
Running == {u \in Units : status[u] \in {"running", "detached"}}

\* The units that are still to run or running.
Live == {u \in Units : status[u] \in {"queued", "deferred", "running", "detached"}}

\* C1: with a maxConcurrency N >= 1, the units (initializer and tasks) that
\* have started running and have not settled are never more than N.
C1_RunningWithinMax ==
    opts.maxConcurrency.unbounded
        \/ Cardinality(Running) <= opts.maxConcurrency.n

\* C1 happens: two units run at the limit 2 while a task waits in the queue.
C1_Witness ==
    /\ ~opts.maxConcurrency.unbounded
    /\ opts.maxConcurrency.n = 2
    /\ Cardinality(Running) = 2
    /\ queue # <<>>

\* C2: once liveUnits has reached 0 the completion handle has been settled
\* (it is not left pending).
C2_SettledWhenLocked == active = 0 => completion.state # "pending"

\* C3: completion is settled at most once (only from pending), only in the
\* step in which liveUnits reaches 0, and never while a unit is live.
C3_SettledOnceAtZero ==
    /\ [](completion.state # "pending" => Live = {})
    /\ [][completion' # completion =>
            /\ completion.state = "pending"
            /\ completion'.state # "pending"
            /\ active # 0
            /\ active' = 0]_vars

\* C3 happens: completion has settled after three units settled.
C3_Witness == completion.state # "pending" /\ Len(settled) >= 3

\* C4: when every unit has settled, the initializer fulfilled with v, no task
\* failed and no hook raised, completion is resolved with exactly v.
C4_ResolvesWithInitValue ==
    ( /\ active = 0
      /\ outcome[0] = "ok"
      /\ \A t \in Tasks : outcome[t] # "fail"
      /\ opts.onResolved # "raise" )
    => completion = [state |-> "resolved", value |-> Val(0), errors |-> <<>>]

\* The failures of the units of seq, in the order of seq.
RECURSIVE FailuresOf(_)
FailuresOf(seq) ==
    IF seq = <<>> THEN <<>>
    ELSE (IF outcome[Head(seq)] = "fail" THEN <<Err(Head(seq))>> ELSE <<>>)
            \o FailuresOf(Tail(seq))

\* C5: with no hooks, a settled completion carries exactly the failures of
\* the units that failed, each once, in settlement order (and is rejected
\* exactly when there is one).
C5_AggregateIsCapturedFailures ==
    ( /\ opts.onRejected = "none"
      /\ opts.onResolved = "none"
      /\ completion.state # "pending" )
    => /\ completion.errors = FailuresOf(settled)
       /\ completion.state = "rejected" <=> FailuresOf(settled) # <<>>

\* C6: a task's handle takes the outcome of that task's own promise, never
\* another value, and is not pending once the task has settled.
C6_HandleReflectsOwnTask ==
    \A t \in Tasks :
        \/ handle[t] = [st |-> "adopt", of |-> t]
        \/ handle[t].st \in {"none", "pending"} /\ outcome[t] = "none"

\* C7: once liveUnits is 0, a schedule call fails with the "locked" error and
\* changes nothing.
C7_LockedScheduleFails ==
    [][(active = 0 /\ lastCall' # lastCall) =>
            /\ lastCall'.result = "Error: Scheduler locked!"
            /\ UNCHANGED <<active, queue, status, completion, nextTask>>]_vars

\* C8: the tasks that waited in the queue start in submission order: when a
\* task has started, every task submitted before it has started before it.
C8_QueuedStartFifo ==
    \A i \in 1..Len(started) :
        \A a \in 1..(started[i] - 1) :
            \E j \in 1..(i - 1) : started[j] = a

\* C9: with an onRejected hook that returns normally (and nothing else
\* failing), the hook is called with each failing task's error, no error is
\* recorded and completion is not rejected.
C9_SwallowedNotRecorded ==
    ( /\ opts.onRejected = "swallow"
      /\ opts.onResolved # "raise"
      /\ outcome[0] # "fail" )
    => /\ errors = <<>>
       /\ completion.state # "rejected"
       /\ \A t \in Tasks : outcome[t] = "fail" =>
            \E i \in 1..Len(hookLog) :
                hookLog[i] = [hook |-> "onRejected", arg |-> Err(t)]

\* C10: when a task fails and no onRejected hook is supplied (options absent
\* or without onRejected), exactly that task's own error is appended to
\* errors.
C10_DefaultRecordsOwnError ==
    [][\A t \in Tasks :
            ( /\ opts.onRejected = "none"
              /\ outcome[t] = "none"
              /\ outcome'[t] = "fail" )
            => (IF active' = 0 THEN completion'.errors ELSE errors')
                    = Append(errors, Err(t))]_vars

\* The errors on record after a step: those handed to completion when the
\* step settled it, the errors array otherwise.
recordedNext == IF completion' # completion THEN completion'.errors ELSE errors'

\* C11: when a task fails and the supplied onRejected hook raises a value of
\* its own, exactly one entry is recorded for the task, and it is the value
\* the hook raised.
C11_SubstituteRecorded ==
    [][\A t \in Tasks :
            ( /\ opts.onRejected = "substitute"
              /\ outcome[t] = "none"
              /\ outcome'[t] = "fail" )
            => recordedNext = Append(errors, SubstErr(t))]_vars

\* The calls of onResolved in a hook log.
OnResolvedCalls(log) == {i \in 1..Len(log) : log[i].hook = "onResolved"}

\* C12: with onResolved supplied, the step in which a task fulfils calls the
\* hook exactly once, and what the hook raised is on record when that step
\* passes the slot on, keeps the instance open or settles completion; a step
\* in which no unit fulfils does not call the hook.
C12_OnResolvedOncePerTask ==
    [][opts.onResolved # "none" =>
        /\ \A t \in Tasks :
            (outcome[t] = "none" /\ outcome'[t] = "ok") =>
                /\ Len(hookLog') = Len(hookLog) + 1
                /\ hookLog'[Len(hookLog')].hook = "onResolved"
                /\ (opts.onResolved = "raise"
                        /\ (active' # 0 \/ completion' # completion)) =>
                        /\ recordedNext # <<>>
                        /\ recordedNext[Len(recordedNext)] = HookErr(t)
        /\ (\A u \in Units : outcome'[u] = "ok" => outcome[u] = "ok") =>
                OnResolvedCalls(hookLog') = OnResolvedCalls(hookLog)]_vars

\* C13: when onResolved raises for a task that fulfilled, the step records
\* the raised value, runs the settlement (a queued entry is taken or
\* liveUnits goes down by one) and leaves the task's handle on the task's
\* own result; and once liveUnits is 0, completion is rejected with the
\* raised value among its errors.
C13_RaisingOnResolvedCaptured ==
    /\ [][opts.onResolved = "raise" =>
            \A t \in Tasks :
                (outcome[t] = "none" /\ outcome'[t] = "ok") =>
                    /\ \/ active' = active - 1
                       \/ active' = active
                            /\ (queue' # queue \/ queueHead' # queueHead)
                    /\ active' # 0 => errors' = Append(errors, HookErr(t))
                    /\ \/ handle'[t] = NoHandle
                       \/ handle'[t] = [st |-> "adopt", of |-> t]]_vars
    /\ [](\A t \in Tasks :
            (opts.onResolved = "raise" /\ outcome[t] = "ok" /\ active = 0) =>
                /\ completion.state = "rejected"
                /\ \E i \in 1..Len(completion.errors) :
                        completion.errors[i] = HookErr(t))

\* C14: the step in which the initializer settles calls no hook.
C14_NoHookForInitializer ==
    [][outcome'[0] # outcome[0] => hookLog' = hookLog]_vars

\* C15: with maxConcurrency = 1 and the initializer unsettled, liveUnits is
\* 1, every task submitted so far waits in the queue and none has started or
\* has a start arranged.
C15_InitializerHoldsOnlySlot ==
    (opts.maxConcurrency = Bounded(1) /\ outcome[0] = "none") =>
        /\ active = 1
        /\ started = <<>>
        /\ jobs = <<>>
        /\ \A t \in Tasks :
                status[t] = IF t < nextTask THEN "queued" ELSE "idle"

\* C15 happens: two tasks were submitted while the initializer holds the
\* only slot.
C15_Witness ==
    /\ opts.maxConcurrency = Bounded(1)
    /\ outcome[0] = "none"
    /\ nextTask >= 3

\* C16: the schedule call that accepts a task does not invoke the task: the
\* task has not started when the call returns.
C16_NotStartedInsideSchedule ==
    [][nextTask' # nextTask =>
            /\ started' = started
            /\ status'[nextTask] \notin {"running", "detached", "settled"}]_vars

\* C16 happens: a schedule call found a free slot and its task has not
\* started yet, and another did and its task has started since.
C16_Witness ==
    /\ lastCall.result = "true"
    /\ status[lastCall.task] = "deferred"
    /\ started # <<>>

\* C17: no accepted task is left behind: once liveUnits is 0 (from where
\* nothing starts any more), no task is still waiting to be started.
C17_NoAcceptedTaskLeftBehind ==
    active = 0 => \A t \in Tasks : status[t] \notin {"queued", "deferred"}

\* C18: liveUnits is never negative, and once it is 0 it stays 0 and no task
\* starts or has a start arranged.
C18_LockIsPermanent ==
    /\ [](active >= 0)
    /\ [][active = 0 =>
            /\ active' = 0
            /\ started' = started
            /\ jobs' = jobs
            /\ \A u \in Units : status'[u] = status[u] \/ status'[u] = "settled"]_vars

\* C18 happens: schedule was called on the locked instance.
C18_Witness ==
    /\ active = 0
    /\ lastCall = [task |-> nextTask, result |-> "false"]
    /\ Len(settled) >= 2

\* What the claim refuses: NaN and every number below 1 (0, the negative
\* numbers and the fractions that truncate to less than 1).
RefusedByClaim(m) ==
    \/ m.kind \in {"nan", "neginf"}
    \/ m.kind = "num" /\ m.num < m.den

\* What the claim accepts: the integers from 1 on and the default.
AcceptedByClaim(m) ==
    \/ m.kind = "absent"
    \/ m.kind = "num" /\ m.num % m.den = 0 /\ m.num >= m.den

\* C19: scheduleAndRun raises a RangeError, with neither the initializer nor
\* a task invoked, for a maxConcurrency that is NaN or below 1, and goes on
\* to invoke the initializer, with that limit, for an integer >= 1 and with
\* no limit when maxConcurrency is not given.
C19_MaxConcurrencyValidated ==
    [][(status[0] = "idle" /\ lastCall = NoCall) =>
        LET m == opts.maxConcurrency
        IN /\ RefusedByClaim(m) =>
                /\ lastCall'.result = "RangeError"
                /\ status'[0] = "idle"
                /\ started' = <<>>
                /\ active' = 0
           /\ AcceptedByClaim(m) =>
                /\ lastCall' = NoCall
                /\ status'[0] = "running"
                /\ active' = 1
                /\ opts'.maxConcurrency =
                        IF m.kind = "absent" THEN Unbounded
                        ELSE Bounded(m.num \div m.den)]_vars

\* C19 happens: a fraction that truncates to 0 was refused.
C19_Witness ==
    /\ lastCall.result = "RangeError"
    /\ opts.maxConcurrency = Num(1, 2)
    /\ status[0] = "idle"

\* C20: with maxConcurrency unbounded no task is ever held in the queue: the
\* queue has no entry and no submitted task waits for a slot.
C20_UnboundedNeverQueues ==
    opts.maxConcurrency.unbounded =>
        /\ queueHead = queueTail
        /\ \A t \in Tasks : status[t] # "queued"

\* C21: when the initializer has failed and completion has settled,
\* completion is rejected, the initializer's error is among its errors,
\* every task submitted has run and settled and nothing is live.
C21_InitializerFailureAggregated ==
    (outcome[0] = "fail" /\ completion.state # "pending") =>
        /\ completion.state = "rejected"
        /\ \E i \in 1..Len(completion.errors) : completion.errors[i] = Err(0)
        /\ Live = {}
        /\ \A t \in Tasks : t < nextTask =>
                /\ status[t] = "settled"
                /\ \E j \in 1..Len(started) : started[j] = t

\* The buffer holds task t's entry: the task and, in the two slots after it
\* (round the buffer's length), the resolve and reject functions of its
\* handle, at a place settleTask has not read yet.
B_holdsEntry(t) ==
    \E i \in DOMAIN queue.slots :
        /\ queue.slots[i] = Item("task", t)
        /\ Get(queue, BitAnd(i + 1, queue.length - 1)) = Item("resolve", t)
        /\ Get(queue, BitAnd(i + 2, queue.length - 1)) = Item("reject", t)

\* C22: no task is started twice, and the entry of every submitted task
\* that has not been started is still in the buffer, whole.
C22_StartedOnceNeverDropped ==
    /\ \A i, j \in 1..Len(started) : started[i] = started[j] => i = j
    /\ \A t \in Tasks : status[t] = "queued" => B_holdsEntry(t)

\* C23: while the instance is open, liveUnits is the number of units running
\* plus the number of tasks whose start has been arranged and has not
\* happened yet.
C23_LiveUnitsCountsRunningAndArranged ==
    active > 0 =>
        active = Cardinality({u \in Units :
                        status[u] \in {"running", "detached", "deferred"}})

\* C24: once completion has settled, the queue is empty, no job that starts
\* a task is left, every task submitted has been started and has settled,
\* and no later step starts a task.
C24_NothingStrandedAtCompletion ==
    /\ [](completion.state # "pending" =>
            /\ queue = <<>>
            /\ jobs = <<>>
            /\ \A t \in Tasks : t < nextTask =>
                    /\ status[t] = "settled"
                    /\ \E j \in 1..Len(started) : started[j] = t)
    /\ [][completion.state # "pending" => started' = started]_vars

\* C24 happens: completion has settled after tasks waited in the queue and
\* schedule was called again afterwards.
C24_Witness ==
    /\ completion.state # "pending"
    /\ opts.maxConcurrency = Bounded(1)
    /\ nextTask >= 3
    /\ lastCall = [task |-> nextTask, result |-> "false"]

\* C25: a schedule call on an open instance either finds liveUnits below
\* maxConcurrency, adds exactly 1 to it and arranges the task's start
\* without queueing it, or finds no slot, leaves liveUnits alone and puts
\* the task in the queue; no other task is touched, and errors and
\* completion are left as they are.
C25_ScheduleAdmitsOrQueues ==
    [][(active > 0 /\ nextTask' # nextTask) =>
        /\ IF LessThanMax(active)
           THEN /\ active' = active + 1
                /\ status'[nextTask] = "deferred"
           ELSE /\ active' = active
                /\ status'[nextTask] = "queued"
        /\ \A t \in Tasks : t # nextTask => status'[t] = status[t]
        /\ errors' = errors
        /\ completion' = completion]_vars

\* The tasks waiting in the queue.
Waiting == {t \in Tasks : status[t] = "queued"}

\* C26: a step in which a unit settles while tasks wait takes exactly the
\* one submitted first out of the queue, starts it (or arranges its start)
\* and leaves liveUnits as it is; a step in which a unit settles while none
\* waits takes 1 from liveUnits; and liveUnits goes down in no other step.
C26_SettlementReusesOrReleases ==
    [][/\ settled' # settled =>
            IF Waiting # {}
            THEN /\ active' = active
                 /\ \E t \in Waiting :
                        /\ \A w \in Waiting : t <= w
                        /\ status'[t] \in {"deferred", "running"}
                        /\ \A w \in Waiting \ {t} : status'[w] = "queued"
            ELSE active' = active - 1
       /\ active' < active => (settled' # settled /\ Waiting = {})]_vars

\* C27: a schedule call that raises leaves liveUnits and the queue (its
\* content and its tail) exactly as they were, and accepts no task.
C27_RaisingScheduleChangesNothing ==
    [][(lastCall' # lastCall
            /\ lastCall'.result \in {"Error: Scheduler locked!",
                                     "ReferenceError", "TypeError"}) =>
            /\ active' = active
            /\ queue' = queue
            /\ queueTail' = queueTail
            /\ nextTask' = nextTask
            /\ status' = status]_vars

\* C28: whenever a task waits in the queue, liveUnits is at maxConcurrency
\* (no slot is free).
C28_NoWaitingWhileSlotFree ==
    Waiting # {} =>
        /\ ~opts.maxConcurrency.unbounded
        /\ active = opts.maxConcurrency.n

\* The entries of the circular buffer from head to queueTail, oldest first:
\* of each, the task slot and the resolve slot (n bounds the walk).
RECURSIVE B_pending(_, _)
B_pending(head, n) ==
    IF head = queueTail \/ n = 0 THEN <<>>
    ELSE LET mask == queue.length - 1
         IN <<[task |-> Get(queue, head),
               resolve |-> Get(queue, BitAnd(head + 1, mask))]>>
                \o B_pending(BitAnd(head + 3, mask), n - 1)

\* C29: run side by side, the circular-buffer polyfill and the reference
\* polyfill answer each schedule call alike, hold the same pending entries
\* in the same order, have started the same tasks in the same order, and
\* have the same handle outcomes and the same completion outcome.
C29_SameContract ==
    /\ lastCall = ref.lastCall
    /\ B_pending(queueHead, MaxBothTasks + 1) =
            [i \in 1..Len(ref.queue) |->
                [task |-> Item("task", ref.queue[i]),
                 resolve |-> Item("resolve", ref.queue[i])]]
    /\ started = ref.started
    /\ handle = ref.handle
    /\ completion = ref.completion

\* C30: the entries waiting in the circular buffer never take more slots
\* than the buffer has, and every entry settleTask takes out is a whole
\* one: a task with, in the two slots after it, the resolve and reject
\* functions that schedule wrote with it.
C30_BufferEntriesIntact ==
    /\ [](3 * Cardinality(Waiting) <= queue.length)
    /\ [][(queueHead # queueTail /\ queueHead' # queueHead) =>
            LET mask == queue.length - 1
                next == Get(queue, queueHead)
            IN /\ next.k = "task"
               /\ Get(queue, BitAnd(queueHead + 1, mask)) = Item("resolve", next.of)
               /\ Get(queue, BitAnd(queueHead + 2, mask)) = Item("reject", next.of)]_vars

\* The slots of the circular buffer that hold no waiting entry.
B_freeSlots ==
    IF queue.length = 0 THEN 0
    ELSE queue.length - BitAnd(queueTail - queueHead, queue.length - 1)

\* C31: the capacity of the circular buffer is 0 or a power of two, and an
\* accepted schedule call changes it exactly when fewer than 3 slots are
\* free, and then doubles it (16 from 0).
C31_GrowsExactlyWhenFull ==
    /\ [](queue.length = 0
            \/ (queue.length > 0 /\ BitAnd(queue.length, queue.length - 1) = 0))
    /\ [][nextTask' # nextTask =>
            IF B_freeSlots < 3
            THEN queue'.length = grownLength(queue.length)
            ELSE queue'.length = queue.length]_vars

====
